---------------------------- MODULE Spec2Model ----------------------------
(***************************************************************************)
(* Model of libslic3r/ShapeDiameterFunction.cpp.                           *)
(*                                                                         *)
(* Numbers.  The program computes in float; the model computes in exact    *)
(* rational arithmetic.  A rational is a pair <<n, d>> with d > 0 in       *)
(* lowest terms.  Euclidean lengths are irrational in general, so a length *)
(* is carried as its square: for a, b >= 0, a > b iff a^2 > b^2,           *)
(* (a * r)^2 = a^2 * r^2 and, for 0 <= r <= 1, (a - a*r)^2 = a^2*(1-r)^2.  *)
(* Float rounding is outside the model.                                    *)
(***************************************************************************)
EXTENDS Integers, Sequences, FiniteSets, TLC

(***************************************************************************)
(* Exact rational arithmetic                                               *)
(***************************************************************************)
RECURSIVE GCD(_, _)
GCD(a, b) == IF b = 0 THEN a ELSE GCD(b, a % b)

Abs(x) == IF x < 0 THEN -x ELSE x

Rat(n, d) ==
    LET s == IF d < 0 THEN -1 ELSE 1
        g == GCD(Abs(n), Abs(d))
    IN  <<(s * n) \div g, (s * d) \div g>>

RInt(n) == <<n, 1>>
RAdd(p, q) == Rat(p[1] * q[2] + q[1] * p[2], p[2] * q[2])
RSub(p, q) == Rat(p[1] * q[2] - q[1] * p[2], p[2] * q[2])
RMul(p, q) == Rat(p[1] * q[1], p[2] * q[2])
RDiv(p, q) == Rat(p[1] * q[2], p[2] * q[1])
RLt(p, q) == p[1] * q[2] < q[1] * p[2]
RLe(p, q) == p[1] * q[2] <= q[1] * p[2]
RGt(p, q) == RLt(q, p)
RAbs(p) == <<Abs(p[1]), p[2]>>
RSq(p) == RMul(p, p)
RFloor(p) == p[1] \div p[2]

\* Vec3f over the rationals
VSub(u, v) == <<RSub(u[1], v[1]), RSub(u[2], v[2]), RSub(u[3], v[3])>>
VAdd(u, v) == <<RAdd(u[1], v[1]), RAdd(u[2], v[2]), RAdd(u[3], v[3])>>
VScale(u, r) == <<RMul(u[1], r), RMul(u[2], r), RMul(u[3], r)>>
\* squaredNorm(); norm() is its square root, carried as the square
SqNorm(u) == RAdd(RSq(u[1]), RAdd(RSq(u[2]), RSq(u[3])))
VInt(x, y, z) == <<RInt(x), RInt(y), RInt(z)>>

\* element i (0-based, as in the source) of a vector / std::vector
At(s, i) == s[i + 1]

(***************************************************************************)
(* Bounds of the model                                                     *)
(***************************************************************************)
\* subdivide: vertex coordinates of the input meshes range over 0..MaxCoord
MaxCoord == 2
\* poisson_sphere_from_samples: the longest candidate list
MaxSamples == 3
\* calc_width: the number of directions of config.dirs
MaxDirs == 2
\* calc_widths: the largest number of points
MaxPoints == 3
\* generate_support_points: the largest number of triangles of the mesh
MaxTriangles == 2
\* sample_tiny_parts: the largest number of ray casts followed
MaxCasts == 2
\* min_triangle_side_length: the largest coordinate of a vertex
MaxSide == 3
\* create_fibonacci_sphere_samples: the largest count_samples
MaxCountSamples == 6

VARIABLES
    \* ---- subdivide(its, max_length) ----
    its_vertices,     \* its.vertices
    its_indices,      \* its.indices
    max_length,       \* max_length
    result_vertices,  \* result.vertices
    result_indices,   \* result.indices
    result_from,      \* per output triangle: position in its.indices of the
                      \* input triangle the for loop was at when it was pushed
    tls,              \* std::queue<TriangleLengths> tls
    edge_divides,     \* EdgeDivides edge_divides
    created,          \* keys for which divide() created vertices, in order
    tl,               \* TriangleLengths tl of the do/while loop
    tri,              \* position of the for loop in its.indices (1-based)
    pc,               \* "for" | "loop" | "done"
    steps,            \* number of steps subdivide has taken
    \* ---- poisson_sphere_from_samples(samples, grid) ----
    samples_in,       \* samples as the caller passed it
    samples,          \* PointRadiuses &samples
    grid,             \* const PointGrid3D &grid: the points it stores
    actGrid,          \* PointGrid3D actGrid: cell size and stored points
    presult,          \* PointRadiuses result
    si,               \* position of the for loop in samples (1-based)
    back_read,        \* history: what samples.back() read:
                      \* "none" | "element" | "past_end"
    ppc,              \* "idle" | "sort" | "loop" | "done"
    \* ---- calc_width(point, normal, tree, config) ----
    cw_normal_z,      \* normal.z()
    cw_rays,          \* per direction of config.dirs: what the ray cast gives
    cw_config,        \* const RaysConfig &config
    cw_out,           \* the returned width
    cw_pc,            \* "idle" | "call" | "done"
    \* ---- calc_widths(points, normals, tree, config) ----
    w_points,         \* points: per point, what the ray casts from it give
    w_normals,        \* normals: per point, normal.z()
    w_config,         \* const RaysConfig &config
    w_widths,         \* std::vector<float> widths(size)
    ranges,           \* the blocked_ranges parallel_for has made
    writes,           \* history: per slot, the (task, index) pairs that wrote it
    w_ret,            \* the returned vector
    wpc,              \* "idle" | "entry" | "parallel" | "done"
    \* ---- generate_support_points(its, widths, cfg, random_generator) ----
    s_its,            \* const indexed_triangle_set &its
    s_widths,         \* const std::vector<float> &widths
    s_cfg,            \* const SampleConfig &cfg
    random_generator, \* the stream of values the seeded generator yields
    draws,            \* how many values have been drawn from it
    s_result,         \* PointRadiuses result
    s_tri,            \* position of the for loop over its.indices
    s_count,          \* int count
    s_c,              \* int c
    s_radiuses,       \* Vec3f radiuses
    s_from,           \* history: per result point, the triangle it is from
    s_log,            \* history: per triangle visited, what the visit did
    spc,              \* "idle" | "loop" | "points" | "done"
    \* ---- create_fibonacci_sphere_samples(angle, count_samples) ----
    f_angle,          \* double angle
    f_count_samples,  \* size_t count_samples
    f_min_z,          \* double min_z
    f_points,         \* Directions points, and the returned Directions
    f_i,              \* size_t i
    fpc,              \* "idle" | "entry" | "loop" | "done" | "aborted"
    \* ---- sample_tiny_parts(its, grid, config, random_generator) ----
    t_its,            \* const indexed_triangle_set &its
    t_min_length,     \* config.min_length
    t_tree,           \* AABBTree tree
    t_hit,            \* history: the ids the ray casts of calc_width returned
    tpc,              \* "idle" | "copy" | "connect" | "normals" | "tree" | "cast"
    \* ---- min_triangle_side_length(its) ----
    m_its,            \* const indexed_triangle_set &its
    m_min,            \* float min, carried as its square
    m_tri,            \* position of the for loop over its.indices
    m_i,              \* int i
    m_read,           \* history: the positions of its.vertices the loop read
    mpc               \* "idle" | "entry" | "loop" | "done" | "crashed"

subdivide_vars == <<its_vertices, its_indices, max_length, result_vertices,
                    result_indices, result_from, tls, edge_divides, created,
                    tl, tri, pc, steps>>

poisson_vars ==
    <<samples_in, samples, grid, actGrid, presult, si, back_read, ppc>>

calc_vars == <<cw_normal_z, cw_rays, cw_config, cw_out, cw_pc>>

widths_vars ==
    <<w_points, w_normals, w_config, w_widths, ranges, writes, w_ret, wpc>>

support_vars ==
    <<s_its, s_widths, s_cfg, random_generator, draws, s_result, s_tri,
      s_count, s_c, s_radiuses, s_from, s_log, spc>>

fib_vars == <<f_angle, f_count_samples, f_min_z, f_points, f_i, fpc>>

tiny_vars == <<t_its, t_min_length, t_tree, t_hit, tpc>>

minside_vars == <<m_its, m_min, m_tri, m_i, m_read, mpc>>

vars == <<subdivide_vars, poisson_vars, calc_vars, widths_vars, support_vars,
          fib_vars, tiny_vars, minside_vars>>

(***************************************************************************)
(* subdivide: struct Edges                                                 *)
(***************************************************************************)
\* lengths(-1.f,-1.f,-1.f): the value -1 itself, never a square
NoLength == <<-1, 1>>

\* length <= max_length, the length given by its square
LenLe(len2, m) == RLe(len2, RSq(m))
LenGt(len2, m) == ~LenLe(len2, m)

EdgesData(indices, vertices) ==
    LET v0 == At(vertices, At(indices, 0))
        v1 == At(vertices, At(indices, 1))
        v2 == At(vertices, At(indices, 2))
    IN  <<VSub(v0, v1), VSub(v1, v2), VSub(v2, v0)>>

abs_sum(v) == RAdd(RAbs(v[1]), RAdd(RAbs(v[2]), RAbs(v[3])))

biggest_index(sum) ==
    IF RGt(At(sum, 0), At(sum, 1))
    THEN IF RGt(At(sum, 0), At(sum, 2))
         THEN IF RGt(At(sum, 2), At(sum, 1)) THEN <<0, 2, 1>> ELSE <<0, 1, 2>>
         ELSE <<2, 0, 1>>
    ELSE IF RGt(At(sum, 1), At(sum, 2))
         THEN IF RGt(At(sum, 2), At(sum, 0)) THEN <<1, 2, 0>> ELSE <<1, 0, 2>>
         ELSE <<2, 1, 0>>

\* "calculate rest of lengths": the inner loop over j = i+1 .. 2
RestOfLengths(i, order, data, lengths) ==
    [k \in 1..3 |->
        IF \E j \in (i + 1)..2 : At(order, j) = k - 1
        THEN SqNorm(data[k]) ELSE lengths[k]]

\* the loop of is_dividable from position i on; yields the return value and
\* the member lengths as the call leaves it
RECURSIVE is_dividable_loop(_, _, _, _, _, _)
is_dividable_loop(i, order, sum, data, lengths, m) ==
    IF i >= 3 THEN [dividable |-> FALSE, lengths |-> lengths]
    ELSE LET index == At(order, i)
         IN  IF RLe(At(sum, index), m)
             THEN [dividable |-> FALSE, lengths |-> lengths]
             ELSE LET ls == [lengths EXCEPT ![index + 1] = SqNorm(At(data, index))]
                  IN  IF LenLe(At(ls, index), m)
                      THEN is_dividable_loop(i + 1, order, sum, data, ls, m)
                      ELSE [dividable |-> TRUE,
                            lengths |-> RestOfLengths(i, order, data, ls)]

is_dividable(indices, vertices, m) ==
    LET data == EdgesData(indices, vertices)
        sum == <<abs_sum(data[1]), abs_sum(data[2]), abs_sum(data[3])>>
    IN  is_dividable_loop(0, biggest_index(sum), sum, data,
                          <<NoLength, NoLength, NoLength>>, m)

(***************************************************************************)
(* subdivide: struct TriangleLengths                                       *)
(***************************************************************************)
TriangleLengths(indices, lengths) == [indices |-> indices, l |-> lengths]

\* get_divide_index with strict comparisons in every branch: no branch is
\* taken when the two longest lengths are equal
get_divide_index_strict(l, m) ==
    IF RGt(At(l, 0), At(l, 1)) /\ RGt(At(l, 0), At(l, 2))
    THEN IF LenGt(At(l, 0), m) THEN 0 ELSE -1
    ELSE IF RGt(At(l, 1), At(l, 0)) /\ RGt(At(l, 1), At(l, 2))
         THEN IF LenGt(At(l, 1), m) THEN 1 ELSE -1
         ELSE IF RGt(At(l, 2), At(l, 0)) /\ RGt(At(l, 2), At(l, 1))
              THEN IF LenGt(At(l, 2), m) THEN 2 ELSE -1
              ELSE -1

get_divide_index(l, m) ==
    IF RGt(At(l, 0), At(l, 1)) /\ RGt(At(l, 0), At(l, 2))
    THEN IF LenGt(At(l, 0), m) THEN 0 ELSE -1
    ELSE IF RGt(At(l, 1), At(l, 2))
         THEN IF LenGt(At(l, 1), m) THEN 1 ELSE -1
         ELSE IF LenGt(At(l, 2), m) THEN 2 ELSE -1

\* static_cast<size_t>(floor(length / max_length)), the length given by its
\* square: the k >= 0 with k*m <= length < (k+1)*m
FloorLenRatio(len2, m) ==
    LET q == RDiv(len2, RSq(m))
    IN  CHOOSE k \in 0..(RFloor(q) + 1) :
            /\ RLe(RInt(k * k), q)
            /\ RLt(q, RInt((k + 1) * (k + 1)))

VerticesSequence(start_index, positive_order) ==
    [start_index |-> start_index, positive_order |-> positive_order]

\* std::map::insert: no effect when the key is present
MapInsert(map, key, value) ==
    IF key \in DOMAIN map THEN map ELSE (key :> value) @@ map

\* --index_offset when the count is even and key_swap == (l[i1] < l[i2])
index_offset_of(count_edge_vertices, key_swap, l_i1, l_i2) ==
    IF count_edge_vertices % 2 = 0 /\ (key_swap = RLt(l_i1, l_i2))
    THEN (count_edge_vertices \div 2) - 1
    ELSE count_edge_vertices \div 2

\* the key without the swap: the pair in the order the triangle names it
EdgeKey_unswapped(a, b) == <<a, b>>

\* the key of an edge: the pair of vertex indices, small first
EdgeKey(a, b) == IF a > b THEN <<b, a>> ELSE <<a, b>>

\* edge_divides.find(key)
EdgeFind(map, key) == key \in DOMAIN map

divide(t, divide_index, m, vertices, divides) ==
    LET i0 == divide_index
        i1 == (divide_index + 1) % 3
        i2 == (divide_index + 2) % 3
        vi0 == At(t.indices, i0)
        vi1 == At(t.indices, i1)
        vi2 == At(t.indices, i2)
        key_swap == vi0 > vi1
        key == EdgeKey(vi0, vi1)
        length == At(t.l, divide_index)
        count_edge_vertices == FloorLenRatio(length, m)
        count_edge_segments == count_edge_vertices + 1
        found == EdgeFind(divides, key)
        vf == At(vertices, key[1])
        dir == VSub(At(vertices, key[2]), vf)
        vertices1 ==
            IF found THEN vertices
            ELSE vertices \o
                 [i \in 1..count_edge_vertices |->
                     VAdd(vf, VScale(dir, Rat(i, count_edge_segments)))]
        divides1 ==
            IF found THEN divides
            ELSE MapInsert(divides, key, VerticesSequence(Len(vertices), TRUE))
        vs == divides1[key]
        index_offset == index_offset_of(count_edge_vertices, key_swap,
                                        At(t.l, i1), At(t.l, i2))
        sign == IF vs.positive_order THEN 1 ELSE -1
        new_index == vs.start_index + sign * index_offset
        new_len == SqNorm(VSub(At(vertices1, vi2), At(vertices1, new_index)))
        ratio == Rat(1 + index_offset, count_edge_segments)
        len1a == RMul(At(t.l, i0), RSq(ratio))
        len2a == RMul(At(t.l, i0), RSq(RSub(RInt(1), ratio)))
        len1 == IF key_swap THEN len2a ELSE len1a
        len2 == IF key_swap THEN len1a ELSE len2a
        tl1 == TriangleLengths(<<vi0, new_index, vi2>>,
                               <<len1, new_len, At(t.l, i2)>>)
        tl2 == TriangleLengths(<<new_index, vi1, vi2>>,
                               <<len2, At(t.l, i1), new_len>>)
        divides2 ==
            IF index_offset > 0
            THEN LET new_key_swap == key[1] > new_index
                 IN  MapInsert(divides1, EdgeKey(key[1], new_index),
                        IF new_key_swap
                        THEN VerticesSequence(new_index - sign, ~vs.positive_order)
                        ELSE vs)
            ELSE divides1
        divides3 ==
            IF index_offset < count_edge_vertices - 1
            THEN LET new_key_swap == new_index > key[2]
                 IN  MapInsert(divides2, EdgeKey(new_index, key[2]),
                        IF new_key_swap
                        THEN VerticesSequence(
                                 vs.start_index + sign * (count_edge_vertices - 1),
                                 ~vs.positive_order)
                        ELSE VerticesSequence(new_index + sign, vs.positive_order))
            ELSE divides2
    IN  [tl1 |-> tl1, tl2 |-> tl2, vertices |-> vertices1, divides |-> divides3,
         fresh |-> IF found THEN <<>> ELSE <<key>>]

(***************************************************************************)
(* subdivide: the function body                                            *)
(***************************************************************************)
NoTriangle == TriangleLengths(<<>>, <<>>)
EmptyMap == [k \in {} |-> VerticesSequence(0, TRUE)]

\* the small triangle is skipped without the push_back
push_small_dropped(indices_out, indices) == indices_out

\* result.indices.push_back(indices) of a triangle that is not dividable
push_small(indices_out, indices) == Append(indices_out, indices)

\* the two candidate triangles of an input mesh around the edge (0, 1)
FirstTriangles == {<<1, 2, 0>>, <<2, 1, 0>>}
SecondTriangles == {<<1, 0, 3>>, <<0, 1, 3>>}
MaxLengths == {1, 2}

\* the functions of the file are modelled one per specification; the state
\* of the ones a specification does not run stays as it is here
FibIdle ==
    /\ f_angle = <<>> /\ f_count_samples = 0 /\ f_min_z = RInt(0)
    /\ f_points = <<>> /\ f_i = 0 /\ fpc = "idle"

TinyIdle ==
    /\ t_its = <<>> /\ t_min_length = RInt(0) /\ t_tree = <<>>
    /\ t_hit = <<>> /\ tpc = "idle"

MinSideIdle ==
    /\ m_its = <<>> /\ m_min = RInt(0) /\ m_tri = 0 /\ m_i = 0
    /\ m_read = {} /\ mpc = "idle"

PoissonIdle ==
    /\ samples_in = <<>> /\ samples = <<>> /\ grid = {}
    /\ actGrid = [cell_size |-> RInt(0), points |-> {}]
    /\ presult = <<>> /\ si = 1 /\ back_read = "none" /\ ppc = "idle"

CalcIdle ==
    /\ cw_normal_z = RInt(0) /\ cw_rays = <<>> /\ cw_config = <<>>
    /\ cw_out = RInt(0) /\ cw_pc = "idle"

SupportIdle ==
    /\ s_its = <<>> /\ s_widths = <<>> /\ s_cfg = <<>>
    /\ random_generator = <<>> /\ draws = 0 /\ s_result = <<>>
    /\ s_tri = 0 /\ s_count = 0 /\ s_c = 0 /\ s_radiuses = <<>>
    /\ s_from = <<>> /\ s_log = <<>> /\ spc = "idle"

WidthsIdle ==
    /\ w_points = <<>> /\ w_normals = <<>> /\ w_config = <<>>
    /\ w_widths = <<>> /\ ranges = {} /\ writes = <<>>
    /\ w_ret = <<>> /\ wpc = "idle"

SubdivideIdle ==
    /\ its_vertices = <<>> /\ its_indices = <<>> /\ max_length = RInt(1)
    /\ result_vertices = <<>> /\ result_indices = <<>> /\ result_from = <<>>
    /\ tls = <<>> /\ edge_divides = [k \in {} |-> 0] /\ created = <<>>
    /\ tl = [indices |-> <<>>, l |-> <<>>] /\ tri = 1 /\ pc = "idle" /\ steps = 0

SubdivideInit ==
    /\ \E x1 \in 1..MaxCoord, x2, y2, x3, z3 \in 0..MaxCoord :
          its_vertices = <<VInt(0, 0, 0), VInt(x1, 0, 0),
                           VInt(x2, y2, 0), VInt(x3, 0, z3)>>
    /\ \E t1 \in FirstTriangles, t2 \in SecondTriangles :
          its_indices = <<t1, t2>>
    /\ \E m \in MaxLengths : max_length = RInt(m)
    /\ result_vertices = its_vertices
    /\ result_indices = <<>>
    /\ result_from = <<>>
    /\ tls = <<>>
    /\ edge_divides = EmptyMap
    /\ created = <<>>
    /\ tl = NoTriangle
    /\ tri = 1
    /\ pc = "for"
    /\ steps = 0

\* for (indices : its.indices): a triangle that is not dividable
SubdivideSmall ==
    /\ pc = "for"
    /\ tri <= Len(its_indices)
    /\ ~is_dividable(its_indices[tri], its_vertices, max_length).dividable
    /\ result_indices' = push_small(result_indices, its_indices[tri])
    /\ result_from' = Append(result_from, tri)
    /\ tri' = tri + 1
    /\ UNCHANGED <<poisson_vars, calc_vars, widths_vars, support_vars,
                   fib_vars, tiny_vars, minside_vars>>
    /\ steps' = steps + 1
    /\ UNCHANGED <<its_vertices, its_indices, max_length, result_vertices,
                   tls, edge_divides, created, tl, pc>>

\* for (indices : its.indices): a dividable triangle enters the do/while loop
SubdivideStart ==
    /\ pc = "for"
    /\ tri <= Len(its_indices)
    /\ LET e == is_dividable(its_indices[tri], its_vertices, max_length)
       IN  /\ e.dividable
           /\ tl' = TriangleLengths(its_indices[tri], e.lengths)
    /\ pc' = "loop"
    /\ UNCHANGED <<poisson_vars, calc_vars, widths_vars, support_vars,
                   fib_vars, tiny_vars, minside_vars>>
    /\ steps' = steps + 1
    /\ UNCHANGED <<its_vertices, its_indices, max_length, result_vertices,
                   result_indices, result_from, tls, edge_divides, created, tri>>

\* break without the test of the queue
loop_breaks_always(queue) == TRUE

\* do/while, "no dividing": if (tls.empty()) break
loop_breaks(queue) == queue = <<>>

\* do/while: divide_index < 0, "no dividing"
SubdivideEmit ==
    /\ pc = "loop"
    /\ get_divide_index(tl.l, max_length) < 0
    /\ result_indices' = Append(result_indices, tl.indices)
    /\ result_from' = Append(result_from, tri)
    /\ IF loop_breaks(tls)
       THEN /\ pc' = "for"
            /\ tri' = tri + 1
            /\ UNCHANGED <<tl, tls>>
       ELSE /\ tl' = Head(tls)
            /\ tls' = Tail(tls)
            /\ UNCHANGED <<pc, tri>>
    /\ UNCHANGED <<poisson_vars, calc_vars, widths_vars, support_vars,
                   fib_vars, tiny_vars, minside_vars>>
    /\ steps' = steps + 1
    /\ UNCHANGED <<its_vertices, its_indices, max_length, result_vertices,
                   edge_divides, created>>

\* do/while: divide_index >= 0
SubdivideDivide ==
    /\ pc = "loop"
    /\ LET divide_index == get_divide_index(tl.l, max_length)
       IN  /\ divide_index >= 0
           /\ LET d == divide(tl, divide_index, max_length, result_vertices,
                              edge_divides)
              IN  /\ tl' = d.tl1
                  /\ tls' = Append(tls, d.tl2)
                  /\ result_vertices' = d.vertices
                  /\ edge_divides' = d.divides
                  /\ created' = created \o d.fresh
    /\ UNCHANGED <<poisson_vars, calc_vars, widths_vars, support_vars,
                   fib_vars, tiny_vars, minside_vars>>
    /\ steps' = steps + 1
    /\ UNCHANGED <<its_vertices, its_indices, max_length, result_indices,
                   result_from, tri, pc>>

\* return result
SubdivideReturn ==
    /\ pc = "for"
    /\ tri > Len(its_indices)
    /\ pc' = "done"
    /\ UNCHANGED <<poisson_vars, calc_vars, widths_vars, support_vars,
                   fib_vars, tiny_vars, minside_vars>>
    /\ steps' = steps + 1
    /\ UNCHANGED <<its_vertices, its_indices, max_length, result_vertices,
                   result_indices, result_from, tls, edge_divides, created,
                   tl, tri>>

SubdivideNext ==
    \/ SubdivideSmall
    \/ SubdivideStart
    \/ SubdivideEmit
    \/ SubdivideDivide
    \/ SubdivideReturn

\* SubdivideInit, with the other functions not running
InitSubdivide ==
    /\ SubdivideInit
    /\ PoissonIdle
    /\ CalcIdle
    /\ WidthsIdle
    /\ SupportIdle
    /\ FibIdle
    /\ TinyIdle
    /\ MinSideIdle

SpecSubdivide == InitSubdivide /\ [][SubdivideNext]_vars

\* every step of SubdivideNext is a step of SubdivideStep, which is enabled
\* until subdivide has returned: a sequential program that has not returned
\* takes its next step
SubdivideStep == pc # "done" /\ steps' = steps + 1

SpecSubdivideFair == SpecSubdivide /\ WF_steps(SubdivideStep)

(***************************************************************************)
(* subdivide: geometry the claims are stated with                          *)
(***************************************************************************)
\* the square of the Euclidean distance of two vertices of the result
EdgeLen2(a, b) == SqNorm(VSub(At(result_vertices, a), At(result_vertices, b)))

\* the unordered edges {a, b} of an index triple
TriangleEdges(t) == {{At(t, e), At(t, (e + 1) % 3)} : e \in 0..2}

\* some edge of the input triangle at position ti is longer than max_length
InputIsLong(ti) ==
    \E e \in 0..2 :
        LenGt(EdgeLen2(At(its_indices[ti], e), At(its_indices[ti], (e + 1) % 3)),
              max_length)

\* the vertices a registry entry names for its key, walking from key.first
\* (position 0) to key.second (position n + 1)
ChainCount(key) == FloorLenRatio(EdgeLen2(key[1], key[2]), max_length)
ChainVertex(key, j) ==
    LET e == edge_divides[key]
        n == ChainCount(key)
    IN  IF j = 0 THEN key[1]
        ELSE IF j = n + 1 THEN key[2]
        ELSE e.start_index + (IF e.positive_order THEN 1 ELSE -1) * (j - 1)

RECURSIVE SumCounts(_)
SumCounts(keys) ==
    IF keys = <<>> THEN 0 ELSE ChainCount(Head(keys)) + SumCounts(Tail(keys))

(***************************************************************************)
(* C1: when subdivide returns, every edge of every triangle of the result  *)
(* is no longer than max_length; and a triangle for which get_divide_index *)
(* answers -1 has its three stored lengths (ties included) no longer than  *)
(* max_length.                                                             *)
(***************************************************************************)
SubdivideEdgesBounded ==
    /\ pc = "done" =>
          \A k \in 1..Len(result_indices) : \A e \in 0..2 :
             LenLe(EdgeLen2(At(result_indices[k], e),
                            At(result_indices[k], (e + 1) % 3)), max_length)
    /\ (pc = "loop" /\ get_divide_index(tl.l, max_length) = -1) =>
          \A e \in 0..2 : LenLe(At(tl.l, e), max_length)

\* subdivide has returned a mesh in which an input triangle whose two longest
\* edges are equal and longer than max_length was divided
SubdivideTieDivided ==
    /\ pc = "done"
    /\ Len(result_vertices) > Len(its_vertices)
    /\ \E ti \in 1..Len(its_indices) : \E e \in 0..2 :
          LET t == its_indices[ti]
              a == EdgeLen2(At(t, e), At(t, (e + 1) % 3))
              b == EdgeLen2(At(t, (e + 1) % 3), At(t, (e + 2) % 3))
              c == EdgeLen2(At(t, (e + 2) % 3), At(t, e))
          IN  a = b /\ RLe(c, a) /\ LenGt(a, max_length)

SubdivideKeepsSmall ==
    pc = "done" =>
    /\ Len(result_vertices) >= Len(its_vertices)
    /\ SubSeq(result_vertices, 1, Len(its_vertices)) = its_vertices
    /\ \A ti \in 1..Len(its_indices) :
          ~InputIsLong(ti) =>
             \E k \in 1..Len(result_indices) :
                /\ result_indices[k] = its_indices[ti]
                /\ k <= Len(result_from) /\ result_from[k] = ti
    /\ (\A ti \in 1..Len(its_indices) : ~InputIsLong(ti)) =>
          /\ result_vertices = its_vertices
          /\ result_indices = its_indices

\* subdivide has returned for a mesh with a small and a divided triangle
SubdivideMixedDone ==
    /\ pc = "done"
    /\ \E ti \in 1..Len(its_indices) : ~InputIsLong(ti)
    /\ \E ti \in 1..Len(its_indices) : InputIsLong(ti)

(***************************************************************************)
(* C4: subdivide terminates, and the work queue is empty whenever the for  *)
(* loop is at an input triangle (before the next one is started, and on    *)
(* return).                                                                *)
(***************************************************************************)
SubdivideTerminates ==
    /\ <>(pc = "done")
    /\ [](pc # "loop" => tls = <<>>)

\* subdivide has returned after the queue was used: an input triangle gave
\* more than two output triangles
SubdivideQueueUsedDone ==
    /\ pc = "done"
    /\ \E ti \in 1..Len(its_indices) :
          Cardinality({k \in 1..Len(result_from) : result_from[k] = ti}) > 2

(***************************************************************************)
(* poisson_sphere_from_samples                                             *)
(***************************************************************************)
PointRadius(point, radius) == [point |-> point, radius |-> radius]

\* the comparator of std::sort with its arguments the other way round
radius_greater(lhs, rhs) == RGt(lhs.radius, rhs.radius)

\* the comparator of std::sort: lhs.radius < rhs.radius
radius_less(lhs, rhs) == RLt(lhs.radius, rhs.radius)

\* what std::sort may leave: a permutation of the range in which no element
\* is ordered by the comparator before an earlier one (equal radii in any order)
SortedBy(seq) ==
    LET n == Len(seq)
        ordered(t) == \A i, j \in 1..n : i < j => ~radius_less(t[j], t[i])
    IN  {t \in {[i \in 1..n |-> seq[f[i]]] : f \in Permutations(1..n)} : ordered(t)}

\* PointGrid3D(cell_size)
PointGrid3D(cell_size) == [cell_size |-> cell_size, points |-> {}]

\* PointGrid3D::collides_with(pos, radius): a stored point lies within
\* radius of pos
collides_with(points, pos, radius) ==
    \E q \in points : RLt(SqNorm(VSub(q, pos)), RSq(radius))

\* PointGrid3D::insert(pos)
grid_insert(g, pos) == [g EXCEPT !.points = @ \cup {pos}]

\* the loop body's test with the check of the external grid left out
sample_rejected_local_only(act, ext, sample) ==
    collides_with(act.points, sample.point, sample.radius)

\* the loop body's two "continue" tests
sample_rejected(act, ext, sample) ==
    \/ collides_with(act.points, sample.point, sample.radius)
    \/ collides_with(ext, sample.point, sample.radius)

PoissonPositions ==
    {VInt(0, 0, 0), VInt(1, 0, 0), VInt(0, 1, 0), VInt(2, 0, 0)}
PoissonRadii == {RInt(1), RInt(2)}
PoissonCandidates ==
    {PointRadius(q, r) : q \in PoissonPositions, r \in PoissonRadii}

\* the call with a non-empty candidate list
PoissonInit ==
    /\ \E n \in 1..MaxSamples : samples \in [1..n -> PoissonCandidates]
    /\ samples_in = samples
    /\ grid \in {{}} \cup {{q} : q \in PoissonPositions}
    /\ actGrid = PointGrid3D(RInt(0))
    /\ presult = <<>>
    /\ si = 1
    /\ back_read = "none"
    /\ ppc = "sort"

\* std::sort, result, max_r, actGrid, when samples.back() is an element
PoissonSort ==
    /\ ppc = "sort"
    /\ samples # <<>>
    /\ samples' \in SortedBy(samples)
    /\ presult' = <<>>
    /\ actGrid' = PointGrid3D(samples'[Len(samples')].radius)
    /\ back_read' = "element"
    /\ si' = 1
    /\ ppc' = "loop"
    /\ UNCHANGED <<samples_in, grid>>
    /\ UNCHANGED <<subdivide_vars, calc_vars, widths_vars, support_vars,
                   fib_vars, tiny_vars, minside_vars>>

\* for (sample : samples): continue
PoissonReject ==
    /\ ppc = "loop"
    /\ si <= Len(samples)
    /\ sample_rejected(actGrid, grid, samples[si])
    /\ si' = si + 1
    /\ UNCHANGED <<samples_in, samples, grid, actGrid, presult, back_read, ppc>>
    /\ UNCHANGED <<subdivide_vars, calc_vars, widths_vars, support_vars,
                   fib_vars, tiny_vars, minside_vars>>

\* for (sample : samples): insert and emplace_back
PoissonAccept ==
    /\ ppc = "loop"
    /\ si <= Len(samples)
    /\ ~sample_rejected(actGrid, grid, samples[si])
    /\ actGrid' = grid_insert(actGrid, samples[si].point)
    /\ presult' = Append(presult, samples[si])
    /\ si' = si + 1
    /\ UNCHANGED <<samples_in, samples, grid, back_read, ppc>>
    /\ UNCHANGED <<subdivide_vars, calc_vars, widths_vars, support_vars,
                   fib_vars, tiny_vars, minside_vars>>

\* samples = result
PoissonReturn ==
    /\ ppc = "loop"
    /\ si > Len(samples)
    /\ samples' = presult
    /\ ppc' = "done"
    /\ UNCHANGED <<samples_in, grid, actGrid, presult, si, back_read>>
    /\ UNCHANGED <<subdivide_vars, calc_vars, widths_vars, support_vars,
                   fib_vars, tiny_vars, minside_vars>>

PoissonNext ==
    \/ PoissonSort
    \/ PoissonReject
    \/ PoissonAccept
    \/ PoissonReturn

\* PoissonInit, with the other functions not running
InitPoisson ==
    /\ PoissonInit
    /\ SubdivideIdle
    /\ CalcIdle
    /\ WidthsIdle
    /\ SupportIdle
    /\ FibIdle
    /\ TinyIdle
    /\ MinSideIdle

SpecPoisson == InitPoisson /\ [][PoissonNext]_vars

\* the number of positions of seq that hold x
CountIn(seq, x) == Cardinality({i \in 1..Len(seq) : seq[i] = x})

(***************************************************************************)
(* C5: after poisson_sphere_from_samples on a non-empty list, any two      *)
(* accepted points are at least the larger of their two radii apart, and   *)
(* the list is a sub-collection of the candidates in non-decreasing radius *)
(* order.                                                                  *)
(***************************************************************************)
PoissonSeparated ==
    ppc = "done" =>
    /\ \A i, j \in 1..Len(samples) :
          i < j =>
             LET d2 == SqNorm(VSub(samples[i].point, samples[j].point))
             IN  /\ RLe(RSq(samples[i].radius), d2)
                 /\ RLe(RSq(samples[j].radius), d2)
                 /\ RLe(samples[i].radius, samples[j].radius)
    /\ \A i \in 1..Len(samples) :
          CountIn(samples, samples[i]) <= CountIn(samples_in, samples[i])

\* the call has returned two accepted points of different radii after it
\* rejected a candidate
PoissonTwoAccepted ==
    /\ ppc = "done"
    /\ Len(samples) >= 2
    /\ Len(samples) < Len(samples_in)
    /\ samples[1].radius # samples[Len(samples)].radius

(***************************************************************************)
(* C6: no accepted point has a point of the external grid within its       *)
(* radius, and no step of the call changes the external grid.              *)
(***************************************************************************)
PoissonRespectsGrid ==
    /\ [](\A i \in 1..Len(presult) :
             \A q \in grid :
                RLe(RSq(presult[i].radius), SqNorm(VSub(q, presult[i].point))))
    /\ [][grid' = grid]_vars

\* the call has returned after it accepted a candidate and rejected another
\* that collided with the external grid only
PoissonGridRejected ==
    /\ ppc = "done"
    /\ Len(samples) >= 1
    /\ \E i \in 1..Len(samples_in) :
          /\ collides_with(grid, samples_in[i].point, samples_in[i].radius)
          /\ ~collides_with(actGrid.points, samples_in[i].point,
                            samples_in[i].radius)

(***************************************************************************)
(* calc_width                                                              *)
(*                                                                         *)
(* The rotation of the directions into the frame of the normal and the ray *)
(* cast against the tree are not in this file.  For each direction of      *)
(* config.dirs the model is given what they produce: whether              *)
(* intersect_ray_first_hit found a hit, hit.t, and the dot product of      *)
(* ray_dir with the normal of the triangle hit.                            *)
(***************************************************************************)
RECURSIVE RSum(_)
RSum(seq) == IF seq = <<>> THEN RInt(0) ELSE RAdd(Head(seq), RSum(Tail(seq)))

\* the positions i .. n, in order, that keep[_] marks
RECURSIVE SelectIdx(_, _, _)
SelectIdx(n, i, keep) ==
    IF i > n THEN <<>>
    ELSE (IF keep[i] THEN <<i>> ELSE <<>>) \o SelectIdx(n, i + 1, keep)

\* the sum of f over the set S
RECURSIVE RSumOver(_, _)
RSumOver(S, f) ==
    IF S = {} THEN RInt(0)
    ELSE LET d == CHOOSE x \in S : TRUE
         IN  RAdd(f[d], RSumOver(S \ {d}, f))

\* const float no_width = -1.
no_width == RInt(-1)

Ray(hit, t, dot) == [hit |-> hit, t |-> t, dot |-> dot]

\* RaysConfig::is_angle_filtering(), RaysConfig::is_deviation_filtering()
is_angle_filtering(config) == config.angle_filtering
is_deviation_filtering(config) == config.deviation_filtering

\* std::acos of the dot product clamped to [-1, 1], in degrees, for the
\* products -2 .. 2
clamp_dot(dot) == IF dot < -1 THEN -1 ELSE IF dot > 1 THEN 1 ELSE dot
acos_deg(dot) == CASE dot = -1 -> 180 [] dot = 0 -> 90 [] dot = 1 -> 0

\* the ray of direction d survives the hit test and the angle test
ray_survives(ray, config) ==
    /\ ray.hit
    /\ is_angle_filtering(config) =>
          ~(acos_deg(clamp_dot(ray.dot)) > config.allowed_angle)

\* fabs(width - mean) > threshold_deviation, where threshold_deviation is
\* sqrt(variance) * allowed_deviation
out_of_deviation(width, mean, variance, allowed_deviation) ==
    IF RLt(allowed_deviation, RInt(0))
    THEN RGt(variance, RInt(0))
    ELSE RGt(RSq(RSub(width, mean)), RMul(variance, RSq(allowed_deviation)))

\* if (sum_weight <= 0.) return mean
fallback_width(mean, config) == mean

calc_width(normal_z, rays, config) ==
    IF RGt(normal_z, config.normal_z_max) THEN no_width
    ELSE
    LET dirs == config.dirs
        kept == SelectIdx(Len(dirs), 1,
                          [d \in 1..Len(dirs) |-> ray_survives(rays[d], config)])
        widths == [k \in 1..Len(kept) |-> rays[kept[k]].t]
        weights == [k \in 1..Len(kept) |-> dirs[kept[k]].weight]
        size == RInt(Len(widths))
        sum_width == RSum(widths)
        sq_sum_width == RSum([k \in 1..Len(widths) |-> RSq(widths[k])])
    IN  IF widths = <<>> THEN no_width
        ELSE IF Len(widths) = 1 THEN widths[1]
        ELSE
        LET mean == RDiv(sum_width, size)
            variance == RSub(RDiv(sq_sum_width, size), RSq(mean))
            used == SelectIdx(Len(widths), 1,
                       [k \in 1..Len(widths) |->
                           ~(/\ is_deviation_filtering(config)
                             /\ out_of_deviation(widths[k], mean, variance,
                                                 config.allowed_deviation))])
            sum_width2 == RSum([k \in 1..Len(used) |->
                                   RMul(widths[used[k]], weights[used[k]])])
            sum_weight == RSum([k \in 1..Len(used) |-> weights[used[k]]])
        IN  IF RLe(sum_weight, RInt(0)) THEN fallback_width(mean, config)
            ELSE RAdd(RDiv(sum_width2, sum_weight), config.safe_move)

\* what a ray cast may give for one direction
RayOutcomes ==
    {Ray(FALSE, RInt(0), 0)}
        \cup {Ray(TRUE, RInt(t), dot) : t \in {1, 3}, dot \in {-1, 1}}

Direction(weight) == [weight |-> weight]

RaysConfigs ==
    {[dirs |-> dirs, safe_move |-> RInt(sm), normal_z_max |-> Rat(1, 2),
      allowed_angle |-> 90, angle_filtering |-> af,
      allowed_deviation |-> dev, deviation_filtering |-> df] :
        dirs \in [1..MaxDirs -> {Direction(RInt(1)), Direction(RInt(2))}],
        sm \in {0, 1}, af \in BOOLEAN,
        dev \in {Rat(1, 2), RInt(1), RInt(2)}, df \in BOOLEAN}

CalcWidthInit ==
    /\ cw_config \in RaysConfigs
    /\ cw_rays \in [1..MaxDirs -> RayOutcomes]
    /\ cw_normal_z \in {RInt(0), RInt(1)}
    /\ cw_out = RInt(0)
    /\ cw_pc = "call"

CalcWidthCall ==
    /\ cw_pc = "call"
    /\ cw_out' = calc_width(cw_normal_z, cw_rays, cw_config)
    /\ cw_pc' = "done"
    /\ UNCHANGED <<cw_normal_z, cw_rays, cw_config>>
    /\ UNCHANGED <<subdivide_vars, poisson_vars, widths_vars, support_vars,
                   fib_vars, tiny_vars, minside_vars>>

CalcWidthNext == CalcWidthCall

\* CalcWidthInit, with the other functions not running
InitCalcWidth ==
    /\ CalcWidthInit
    /\ SubdivideIdle
    /\ PoissonIdle
    /\ WidthsIdle
    /\ SupportIdle
    /\ FibIdle
    /\ TinyIdle
    /\ MinSideIdle

SpecCalcWidth == InitCalcWidth /\ [][CalcWidthNext]_vars

(***************************************************************************)
(* calc_widths                                                             *)
(*                                                                         *)
(* tbb::parallel_for is modelled by what its contract gives: the range     *)
(* [0, size) is split, any number of times and at any place, into          *)
(* blocked_ranges; a range is no longer split once its body runs; the      *)
(* bodies run interleaved in any order; parallel_for returns when every    *)
(* body has returned.                                                      *)
(***************************************************************************)
BlockedRange(b, e) == [begin |-> b, end |-> e, index |-> b, started |-> FALSE]

\* tbb::blocked_range::is_divisible() with the default grainsize 1
is_divisible(range) == range.end - range.begin > 1

\* the slot the body writes at index: widths[index - range.begin()]
slot_in_block(range, index) == index - range.begin

\* the slot the body writes at index: widths[index]
slot_written(range, index) == index

\* index < range.end()
body_in_range(range) == range.index < range.end

\* check input
input_rejected(points, normals, config) ==
    \/ points = <<>>
    \/ config.dirs = <<>>
    \/ Len(points) # Len(normals)

\* the points the model draws: hidden by the normal, no hit, one hit, two hits
WidthsPoints ==
    { [normal_z |-> RInt(1), rays |-> <<Ray(TRUE, RInt(1), 1), Ray(TRUE, RInt(3), 1)>>],
      [normal_z |-> RInt(0), rays |-> <<Ray(FALSE, RInt(0), 0), Ray(FALSE, RInt(0), 0)>>],
      [normal_z |-> RInt(0), rays |-> <<Ray(FALSE, RInt(0), 0), Ray(TRUE, RInt(3), 1)>>],
      [normal_z |-> RInt(0), rays |-> <<Ray(TRUE, RInt(1), 1), Ray(TRUE, RInt(3), 1)>>] }

WidthsConfigs ==
    {[dirs |-> dirs, safe_move |-> RInt(1), normal_z_max |-> Rat(1, 2),
      allowed_angle |-> 90, angle_filtering |-> TRUE,
      allowed_deviation |-> RInt(2), deviation_filtering |-> TRUE] :
        dirs \in {<<>>, <<Direction(RInt(1)), Direction(RInt(2))>>}}

CalcWidthsInit ==
    /\ \E n \in 0..MaxPoints : \E ps \in [1..n -> WidthsPoints] :
          /\ w_points = [i \in 1..n |-> ps[i].rays]
          /\ \E m \in {n, n - 1} :
                /\ m >= 0
                /\ w_normals = [i \in 1..m |-> ps[i].normal_z]
    /\ w_config \in WidthsConfigs
    /\ w_widths = <<>>
    /\ ranges = {}
    /\ writes = <<>>
    /\ w_ret = <<>>
    /\ wpc = "entry"

\* if (points.empty() || config.dirs.empty() || points.size() !=
\* normals.size()) return {}, in a build without assertions
CalcWidthsRejectInput ==
    /\ wpc = "entry"
    /\ input_rejected(w_points, w_normals, w_config)
    /\ w_ret' = <<>>
    /\ wpc' = "done"
    /\ UNCHANGED <<w_points, w_normals, w_config, w_widths, ranges, writes>>
    /\ UNCHANGED <<subdivide_vars, poisson_vars, calc_vars, support_vars,
                   fib_vars, tiny_vars, minside_vars>>

\* std::vector<float> widths(size); parallel_for(blocked_range(0, size), ...)
CalcWidthsBegin ==
    /\ wpc = "entry"
    /\ ~input_rejected(w_points, w_normals, w_config)
    /\ w_widths' = [i \in 1..Len(w_points) |-> RInt(0)]
    /\ writes' = [i \in 1..Len(w_points) |-> <<>>]
    /\ ranges' = {BlockedRange(0, Len(w_points))}
    /\ wpc' = "parallel"
    /\ UNCHANGED <<w_points, w_normals, w_config, w_ret>>
    /\ UNCHANGED <<subdivide_vars, poisson_vars, calc_vars, support_vars,
                   fib_vars, tiny_vars, minside_vars>>

\* the scheduler splits a range whose body has not begun
CalcWidthsSplit ==
    /\ wpc = "parallel"
    /\ \E range \in ranges :
          /\ ~range.started
          /\ is_divisible(range)
          /\ \E middle \in (range.begin + 1)..(range.end - 1) :
                ranges' = (ranges \ {range})
                             \cup {BlockedRange(range.begin, middle),
                                   BlockedRange(middle, range.end)}
    /\ UNCHANGED <<w_points, w_normals, w_config, w_widths, writes, w_ret, wpc>>
    /\ UNCHANGED <<subdivide_vars, poisson_vars, calc_vars, support_vars,
                   fib_vars, tiny_vars, minside_vars>>

\* one iteration of the body of one range:
\* widths[index] = calc_width(points[index], normals[index], tree, config)
CalcWidthsBody ==
    /\ wpc = "parallel"
    /\ \E range \in ranges :
          /\ body_in_range(range)
          /\ LET index == range.index
                 slot == slot_written(range, index)
                 width == calc_width(At(w_normals, index), At(w_points, index),
                                     w_config)
             IN  /\ w_widths' = [w_widths EXCEPT ![slot + 1] = width]
                 /\ writes' = [writes EXCEPT ![slot + 1] =
                                  Append(@, [task |-> range.begin, index |-> index])]
                 /\ ranges' = (ranges \ {range})
                                 \cup {[range EXCEPT !.index = index + 1,
                                                     !.started = TRUE]}
    /\ UNCHANGED <<w_points, w_normals, w_config, w_ret, wpc>>
    /\ UNCHANGED <<subdivide_vars, poisson_vars, calc_vars, support_vars,
                   fib_vars, tiny_vars, minside_vars>>

\* parallel_for returns when no body has an iteration left; return widths
CalcWidthsReturn ==
    /\ wpc = "parallel"
    /\ \A range \in ranges : ~body_in_range(range)
    /\ w_ret' = w_widths
    /\ wpc' = "done"
    /\ UNCHANGED <<w_points, w_normals, w_config, w_widths, ranges, writes>>
    /\ UNCHANGED <<subdivide_vars, poisson_vars, calc_vars, support_vars,
                   fib_vars, tiny_vars, minside_vars>>

CalcWidthsNext ==
    \/ CalcWidthsRejectInput
    \/ CalcWidthsBegin
    \/ CalcWidthsSplit
    \/ CalcWidthsBody
    \/ CalcWidthsReturn

\* CalcWidthsInit, with the other functions not running
InitCalcWidths ==
    /\ CalcWidthsInit
    /\ SubdivideIdle
    /\ PoissonIdle
    /\ CalcIdle
    /\ SupportIdle
    /\ FibIdle
    /\ TinyIdle
    /\ MinSideIdle

SpecCalcWidths == InitCalcWidths /\ [][CalcWidthsNext]_vars

(***************************************************************************)
(* C7: for non-empty points and normals of equal size and a non-empty      *)
(* direction set, however parallel_for splits the range and interleaves    *)
(* the bodies: a slot is written at most once, by the task whose block     *)
(* holds it and at the index of that slot; calc_widths returns only after  *)
(* every slot has been written exactly once; and the returned widths[i] is *)
(* calc_width(points[i], normals[i], tree, config), so the result does not *)
(* depend on the schedule.                                                 *)
(***************************************************************************)
CalcWidthsSlotsOnce ==
    (wpc \in {"parallel", "done"} /\ ~input_rejected(w_points, w_normals, w_config)) =>
       /\ \A slot \in 1..Len(writes) :
             /\ Len(writes[slot]) <= 1
             /\ \A k \in 1..Len(writes[slot]) :
                   /\ writes[slot][k].index = slot - 1
                   /\ \E range \in ranges :
                         /\ range.begin = writes[slot][k].task
                         /\ range.begin <= slot - 1
                         /\ slot - 1 < range.end
       /\ wpc = "done" =>
             /\ \A slot \in 1..Len(writes) : Len(writes[slot]) = 1
             /\ Len(w_ret) = Len(w_points)
             /\ \A i \in 1..Len(w_points) :
                   w_ret[i] = calc_width(w_normals[i], w_points[i], w_config)

\* a run of C7: three points in two blocks whose bodies interleaved, the
\* widths being a hidden point's, a single hit's and an aggregate's
CalcWidthsTwoBlocksDone ==
    /\ wpc = "done"
    /\ Len(w_ret) >= 2
    /\ Cardinality(ranges) >= 2
    /\ \E i, j \in 1..Len(w_ret) : w_ret[i] # w_ret[j]

(***************************************************************************)
(* C8: whenever at least two rays survive the hit and angle filters, the   *)
(* width calc_width returns is the weighted mean of the distances the      *)
(* deviation filter retains plus safe_move, and, when the retained weights *)
(* do not sum to a positive value, the unfiltered mean plus safe_move.     *)
(***************************************************************************)
CalcWidthAddsSafeMove ==
    (cw_pc = "done" /\ ~RGt(cw_normal_z, cw_config.normal_z_max)) =>
       LET S == {d \in 1..MaxDirs : ray_survives(cw_rays[d], cw_config)}
           n == RInt(Cardinality(S))
           mean == RDiv(RSumOver(S, [d \in S |-> cw_rays[d].t]), n)
           variance ==
               RSub(RDiv(RSumOver(S, [d \in S |-> RSq(cw_rays[d].t)]), n),
                    RSq(mean))
           R == {d \in S :
                   ~(/\ cw_config.deviation_filtering
                     /\ out_of_deviation(cw_rays[d].t, mean, variance,
                                         cw_config.allowed_deviation))}
           W == RSumOver(R, [d \in R |-> cw_config.dirs[d].weight])
           weighted ==
               RDiv(RSumOver(R, [d \in R |-> RMul(cw_rays[d].t,
                                                  cw_config.dirs[d].weight)]), W)
       IN  Cardinality(S) >= 2 =>
              cw_out = RAdd(IF RGt(W, RInt(0)) THEN weighted ELSE mean,
                            cw_config.safe_move)

\* calc_width as it is coded, for at least two surviving rays: the offset
\* is added to the weighted mean only, the fallback is the bare mean
CalcWidthOffsetOnWeightedOnly ==
    (cw_pc = "done" /\ ~RGt(cw_normal_z, cw_config.normal_z_max)) =>
       LET S == {d \in 1..MaxDirs : ray_survives(cw_rays[d], cw_config)}
           n == RInt(Cardinality(S))
           mean == RDiv(RSumOver(S, [d \in S |-> cw_rays[d].t]), n)
           variance ==
               RSub(RDiv(RSumOver(S, [d \in S |-> RSq(cw_rays[d].t)]), n),
                    RSq(mean))
           R == {d \in S :
                   ~(/\ cw_config.deviation_filtering
                     /\ out_of_deviation(cw_rays[d].t, mean, variance,
                                         cw_config.allowed_deviation))}
           W == RSumOver(R, [d \in R |-> cw_config.dirs[d].weight])
           weighted ==
               RDiv(RSumOver(R, [d \in R |-> RMul(cw_rays[d].t,
                                                  cw_config.dirs[d].weight)]), W)
       IN  Cardinality(S) >= 2 =>
              cw_out = IF RGt(W, RInt(0))
                       THEN RAdd(weighted, cw_config.safe_move)
                       ELSE mean

(***************************************************************************)
(* generate_support_points                                                 *)
(*                                                                         *)
(* std::mt19937 is a deterministic stream fixed by its seed: the model     *)
(* holds the stream and the number of values drawn so far.  The meshes are *)
(* chosen so that the norm of every cross product is rational.             *)
(***************************************************************************)
Cross(u, v) ==
    <<RSub(RMul(u[2], v[3]), RMul(u[3], v[2])),
      RSub(RMul(u[3], v[1]), RMul(u[1], v[3])),
      RSub(RMul(u[1], v[2]), RMul(u[2], v[1]))>>

\* the exact square root of a rational that has one
RSqrt(r) ==
    <<CHOOSE k \in 0..r[1] : k * k = r[1], CHOOSE k \in 1..r[2] : k * k = r[2]>>

\* norm()
Norm(u) == RSqrt(SqNorm(u))

\* M_PI, to three digits
M_PI == <<22, 7>>

\* triangle_area(v0, v1, v2): ab.cross(ac).norm() / 2.f
triangle_area_of(v0, v1, v2) ==
    RDiv(Norm(Cross(VSub(v1, v0), VSub(v2, v0))), RInt(2))

\* triangle_area(triangle_inices, vertices)
triangle_area(triangle_indices, vertices) ==
    triangle_area_of(At(vertices, triangle_indices[1]),
                     At(vertices, triangle_indices[2]),
                     At(vertices, triangle_indices[3]))

\* the lambda width_to_radius
width_to_radius(width, cfg) ==
    RAdd(RMul(RDiv(RSub(width, cfg.min_width),
                   RSub(cfg.max_width, cfg.min_width)),
              RSub(cfg.max_radius, cfg.min_radius)),
         cfg.min_radius)

\* the width test without its lower bound: width > cfg.max_width
width_above_max(width, cfg) == RGt(width, cfg.max_width)

\* width > cfg.max_width || width < 0.
width_out_of_needs(width, cfg) ==
    RGt(width, cfg.max_width) \/ RLt(width, RInt(0))

\* is_full_in_needs after the loop over the three vertices
is_full_in_needs(triangle_indices, widths, cfg) ==
    \A i \in 1..3 : ~width_out_of_needs(At(widths, triangle_indices[i]), cfg)

\* radiuses[i] = width_to_radius(width)
radiuses_of(triangle_indices, widths, cfg) ==
    [i \in 1..3 |-> width_to_radius(At(widths, triangle_indices[i]), cfg)]

\* the sum of radiuses[i] * radiuses[i] * M_PI, then /= 3.f
area_for_one_support(radiuses) ==
    RDiv(RSum([i \in 1..3 |-> RMul(RSq(radiuses[i]), M_PI)]), RInt(3))

\* area / area_for_one_support * cfg.multiplicator
countf_of(triangle_indices, its, widths, cfg) ==
    RMul(RDiv(triangle_area(triangle_indices, its.vertices),
              area_for_one_support(radiuses_of(triangle_indices, widths, cfg))),
         cfg.multiplicator)

\* modf: the integral part, truncated towards zero, and the rest
modf(x) ==
    LET int_part == IF RLt(x, RInt(0)) THEN -RFloor(<<-x[1], x[2]>>)
                    ELSE RFloor(x)
    IN  [int_part |-> int_part, fraction |-> RSub(x, RInt(int_part))]

\* the extra point with the comparison not strict: generate <= fraction
one_more_on_tie(generate, fraction) == RLe(generate, fraction)

\* if (generate < fraction) ++count
one_more(generate, fraction) == RLt(generate, fraction)

\* n = (v1 - v0).cross(v2 - v0); n.normalize(); n.z()
normal_z(triangle_indices, vertices) ==
    LET v0 == At(vertices, triangle_indices[1])
        v1 == At(vertices, triangle_indices[2])
        v2 == At(vertices, triangle_indices[3])
        n == Cross(VSub(v1, v0), VSub(v2, v0))
    IN  RDiv(n[3], Norm(n))

\* the value the generator yields at its position k
Drawn(k) == random_generator[(k % Len(random_generator)) + 1]

\* the point made from the barycentric draws x and y
support_point(x, y, triangle_indices, vertices, radiuses) ==
    LET reflect == RGt(RAdd(x, y), RInt(1))
        b0 == IF reflect THEN RSub(RInt(1), x) ELSE x
        b1 == IF reflect THEN RSub(RInt(1), y) ELSE y
        b2 == RSub(RSub(RInt(1), b0), b1)
        v0 == At(vertices, triangle_indices[1])
        v1 == At(vertices, triangle_indices[2])
        v2 == At(vertices, triangle_indices[3])
    IN  [point |-> VAdd(VAdd(VScale(v0, b0), VScale(v1, b1)), VScale(v2, b2)),
         radius |-> RAdd(RAdd(RMul(b0, radiuses[1]), RMul(b1, radiuses[2])),
                         RMul(b2, radiuses[3]))]

SupportVertices ==
    <<VInt(0, 0, 0), VInt(1, 0, 0), VInt(0, 1, 0), VInt(0, 0, 2), VInt(0, 4, 3)>>

\* facing up, facing down, vertical, slanted up, slanted down
SupportTriangles ==
    {<<0, 1, 2>>, <<0, 2, 1>>, <<0, 1, 3>>, <<0, 1, 4>>, <<0, 4, 1>>}

\* per vertex: -1 is calc_width's no_width
SupportWidths ==
    {[v \in 1..5 |-> RInt(w[v])] :
        w \in {<<0, 0, 0, 0, 0>>, <<2, 2, 2, 2, 2>>, <<4, 4, 4, 4, 4>>,
               <<0, 2, 0, 2, 0>>, <<-1, 0, 0, 0, 0>>, <<0, 5, 0, 0, 0>>,
               <<0, 0, -1, 0, 0>>, <<0, 0, 0, 0, 5>>}}

SampleConfigs ==
    {[min_width |-> RInt(0), max_width |-> RInt(4),
      min_radius |-> RInt(1), max_radius |-> RInt(3),
      multiplicator |-> m, normal_z_max |-> Rat(1, 2)] :
        m \in {M_PI, RDiv(M_PI, RInt(2))}}

\* the streams of the seeds the model draws
GeneratorStreams ==
    {<<RInt(0), Rat(3, 4), Rat(1, 2)>>, <<Rat(1, 2), Rat(1, 4), Rat(3, 4)>>,
     <<Rat(1, 4), Rat(1, 4), Rat(1, 4)>>, <<Rat(3, 4), Rat(3, 4), RInt(0)>>}

SupportInit ==
    /\ \E n \in 1..MaxTriangles : \E indices \in [1..n -> SupportTriangles] :
          s_its = [vertices |-> SupportVertices, indices |-> indices]
    /\ s_widths \in SupportWidths
    /\ s_cfg \in SampleConfigs
    /\ random_generator \in GeneratorStreams
    /\ draws = 0
    /\ s_result = <<>>
    /\ s_tri = 0
    /\ s_count = 0
    /\ s_c = 0
    /\ s_radiuses = <<>>
    /\ s_from = <<>>
    /\ s_log = <<>>
    /\ spc = "loop"

Visit(t, before, generate, after) ==
    [tri |-> t, before |-> before, generate |-> generate, after |-> after,
     emitted |-> 0]

\* if (!is_full_in_needs) continue
SupportSkipWidth ==
    /\ spc = "loop"
    /\ s_tri < Len(s_its.indices)
    /\ ~is_full_in_needs(At(s_its.indices, s_tri), s_widths, s_cfg)
    /\ s_log' = Append(s_log, Visit(s_tri, draws, <<>>, draws))
    /\ s_tri' = s_tri + 1
    /\ UNCHANGED <<s_its, s_widths, s_cfg, random_generator, draws, s_result,
                   s_count, s_c, s_radiuses, s_from, spc>>
    /\ UNCHANGED <<subdivide_vars, poisson_vars, calc_vars, widths_vars,
                   fib_vars, tiny_vars, minside_vars>>

\* the count of the triangle at the head of the loop, after the draw
count_of(triangle_indices) ==
    LET m == modf(countf_of(triangle_indices, s_its, s_widths, s_cfg))
    IN  m.int_part + (IF one_more(Drawn(draws), m.fraction) THEN 1 ELSE 0)

\* generate = generate_point(random_generator); if (count == 0) continue
SupportSkipCount ==
    /\ spc = "loop"
    /\ s_tri < Len(s_its.indices)
    /\ is_full_in_needs(At(s_its.indices, s_tri), s_widths, s_cfg)
    /\ count_of(At(s_its.indices, s_tri)) = 0
    /\ draws' = draws + 1
    /\ s_log' = Append(s_log, Visit(s_tri, draws, Drawn(draws), draws + 1))
    /\ s_tri' = s_tri + 1
    /\ UNCHANGED <<s_its, s_widths, s_cfg, random_generator, s_result,
                   s_count, s_c, s_radiuses, s_from, spc>>
    /\ UNCHANGED <<subdivide_vars, poisson_vars, calc_vars, widths_vars,
                   fib_vars, tiny_vars, minside_vars>>

\* if (n.z() > cfg.normal_z_max) continue
SupportSkipNormal ==
    /\ spc = "loop"
    /\ s_tri < Len(s_its.indices)
    /\ is_full_in_needs(At(s_its.indices, s_tri), s_widths, s_cfg)
    /\ count_of(At(s_its.indices, s_tri)) # 0
    /\ RGt(normal_z(At(s_its.indices, s_tri), s_its.vertices), s_cfg.normal_z_max)
    /\ draws' = draws + 1
    /\ s_log' = Append(s_log, Visit(s_tri, draws, Drawn(draws), draws + 1))
    /\ s_tri' = s_tri + 1
    /\ UNCHANGED <<s_its, s_widths, s_cfg, random_generator, s_result,
                   s_count, s_c, s_radiuses, s_from, spc>>
    /\ UNCHANGED <<subdivide_vars, poisson_vars, calc_vars, widths_vars,
                   fib_vars, tiny_vars, minside_vars>>

\* the triangle passes every test: enter for (int c = 0; c < count; c++)
SupportBegin ==
    /\ spc = "loop"
    /\ s_tri < Len(s_its.indices)
    /\ is_full_in_needs(At(s_its.indices, s_tri), s_widths, s_cfg)
    /\ count_of(At(s_its.indices, s_tri)) # 0
    /\ ~RGt(normal_z(At(s_its.indices, s_tri), s_its.vertices), s_cfg.normal_z_max)
    /\ s_count' = count_of(At(s_its.indices, s_tri))
    /\ s_radiuses' = radiuses_of(At(s_its.indices, s_tri), s_widths, s_cfg)
    /\ s_c' = 0
    /\ draws' = draws + 1
    /\ s_log' = Append(s_log, Visit(s_tri, draws, Drawn(draws), draws + 1))
    /\ spc' = "points"
    /\ UNCHANGED <<s_its, s_widths, s_cfg, random_generator, s_result, s_tri,
                   s_from>>
    /\ UNCHANGED <<subdivide_vars, poisson_vars, calc_vars, widths_vars,
                   fib_vars, tiny_vars, minside_vars>>

\* one iteration of the loop over c.  The two draws are arguments of one
\* constructor call, so the build decides which of them is made first.
SupportPoint ==
    /\ spc = "points"
    /\ s_c < s_count
    /\ \E x_first \in BOOLEAN :
          LET x == IF x_first THEN Drawn(draws) ELSE Drawn(draws + 1)
              y == IF x_first THEN Drawn(draws + 1) ELSE Drawn(draws)
          IN  s_result' = Append(s_result,
                                 support_point(x, y, At(s_its.indices, s_tri),
                                               s_its.vertices, s_radiuses))
    /\ s_from' = Append(s_from, s_tri)
    /\ draws' = draws + 2
    /\ s_log' = [s_log EXCEPT ![Len(s_log)].emitted = @ + 1,
                              ![Len(s_log)].after = draws + 2]
    /\ s_c' = s_c + 1
    /\ UNCHANGED <<s_its, s_widths, s_cfg, random_generator, s_tri, s_count,
                   s_radiuses, spc>>
    /\ UNCHANGED <<subdivide_vars, poisson_vars, calc_vars, widths_vars,
                   fib_vars, tiny_vars, minside_vars>>

\* c == count: on to the next triangle
SupportEndTriangle ==
    /\ spc = "points"
    /\ ~(s_c < s_count)
    /\ s_tri' = s_tri + 1
    /\ spc' = "loop"
    /\ UNCHANGED <<s_its, s_widths, s_cfg, random_generator, draws, s_result,
                   s_count, s_c, s_radiuses, s_from, s_log>>
    /\ UNCHANGED <<subdivide_vars, poisson_vars, calc_vars, widths_vars,
                   fib_vars, tiny_vars, minside_vars>>

\* return result
SupportReturn ==
    /\ spc = "loop"
    /\ ~(s_tri < Len(s_its.indices))
    /\ spc' = "done"
    /\ UNCHANGED <<s_its, s_widths, s_cfg, random_generator, draws, s_result,
                   s_tri, s_count, s_c, s_radiuses, s_from, s_log>>
    /\ UNCHANGED <<subdivide_vars, poisson_vars, calc_vars, widths_vars,
                   fib_vars, tiny_vars, minside_vars>>

SupportNext ==
    \/ SupportSkipWidth
    \/ SupportSkipCount
    \/ SupportSkipNormal
    \/ SupportBegin
    \/ SupportPoint
    \/ SupportEndTriangle
    \/ SupportReturn

\* SupportInit, with the other functions not running
InitSupport ==
    /\ SupportInit
    /\ SubdivideIdle
    /\ PoissonIdle
    /\ CalcIdle
    /\ WidthsIdle
    /\ FibIdle
    /\ TinyIdle
    /\ MinSideIdle

SpecSupport == InitSupport /\ [][SupportNext]_vars

\* the three widths of a triangle lie in [0, max_width]
WidthsInNeeds(triangle_indices) ==
    \A i \in 1..3 :
       /\ RLe(RInt(0), At(s_widths, triangle_indices[i]))
       /\ RLe(At(s_widths, triangle_indices[i]), s_cfg.max_width)

\* the unit normal of a triangle has z <= normal_z_max
NormalPasses(triangle_indices) ==
    RLe(normal_z(triangle_indices, s_its.vertices), s_cfg.normal_z_max)

(***************************************************************************)
(* C9: every point of the result is from a triangle whose three vertex     *)
(* widths lie in [0, max_width] and whose unit normal has z <=             *)
(* normal_z_max; a triangle with a width below 0 or above max_width gives  *)
(* no point and consumes no draw; a triangle whose normal z is above the   *)
(* ceiling gives no point.                                                 *)
(***************************************************************************)
SupportOnlyFromNeeded ==
    /\ Len(s_from) = Len(s_result)
    /\ \A p \in 1..Len(s_from) :
          /\ WidthsInNeeds(At(s_its.indices, s_from[p]))
          /\ NormalPasses(At(s_its.indices, s_from[p]))
    /\ \A k \in 1..Len(s_log) :
          LET visit == s_log[k]
              triangle_indices == At(s_its.indices, visit.tri)
          IN  /\ ~WidthsInNeeds(triangle_indices) =>
                    visit.emitted = 0 /\ visit.after = visit.before
              /\ ~NormalPasses(triangle_indices) => visit.emitted = 0
    /\ spc = "done" => Len(s_log) = Len(s_its.indices)

\* a finished run of C9: after a triangle that returned a point, a triangle
\* was rejected for a width and left the generator where it was
SupportRejectedAfterPoint ==
    /\ spc = "done"
    /\ s_result # <<>>
    /\ \E k \in 1..Len(s_log) :
          /\ ~WidthsInNeeds(At(s_its.indices, s_log[k].tri))
          /\ s_log[k].before > 0

(***************************************************************************)
(* C10: for a triangle whose widths lie in [0, max_width] and whose normal *)
(* passes, the number of points emitted is floor(countf) or                *)
(* floor(countf) + 1, with countf = area / mean disc area * multiplicator; *)
(* it is floor(countf) + 1 exactly when the one draw made for the triangle *)
(* is strictly below the fractional part of countf; each emitted point     *)
(* consumes exactly two further draws.                                     *)
(***************************************************************************)
SupportCountFromDraw ==
    \A k \in 1..Len(s_log) :
       LET visit == s_log[k]
           triangle_indices == At(s_its.indices, visit.tri)
           r == [i \in 1..3 |->
                    width_to_radius(At(s_widths, triangle_indices[i]), s_cfg)]
           mean_disc == RDiv(RAdd(RAdd(RMul(RSq(r[1]), M_PI), RMul(RSq(r[2]), M_PI)),
                                  RMul(RSq(r[3]), M_PI)), RInt(3))
           countf == RMul(RDiv(triangle_area(triangle_indices, s_its.vertices),
                               mean_disc), s_cfg.multiplicator)
           floor_countf == RFloor(countf)
           frac == RSub(countf, RInt(floor_countf))
           finished == k < Len(s_log) \/ spc = "loop" \/ spc = "done"
       IN  (WidthsInNeeds(triangle_indices) /\ NormalPasses(triangle_indices)) =>
              /\ visit.generate = Drawn(visit.before)
              /\ visit.after = visit.before + 1 + 2 * visit.emitted
              /\ finished =>
                    /\ visit.emitted \in {floor_countf, floor_countf + 1}
                    /\ visit.emitted = floor_countf + 1
                          <=> RLt(visit.generate, frac)

\* a finished run of C10: one triangle emitted floor(countf) + 1 >= 2
\* points, another emitted floor(countf) on a draw equal to the fraction
SupportExtraAndTie ==
    /\ spc = "done"
    /\ \E k \in 1..Len(s_log) : s_log[k].emitted >= 2
    /\ \E k \in 1..Len(s_log) :
          /\ s_log[k].generate # <<>>
          /\ NormalPasses(At(s_its.indices, s_log[k].tri))
          /\ s_log[k].generate =
                modf(countf_of(At(s_its.indices, s_log[k].tri), s_its, s_widths,
                               s_cfg)).fraction

(***************************************************************************)
(* create_fibonacci_sphere_samples                                         *)
(*                                                                         *)
(* An angle is held with the cosine of its half, for angles where that     *)
(* cosine is rational: 0, 2 acos(4/5), 2 acos(3/5), 120 and 180 degrees;   *)
(* deg is the angle cut to whole degrees.  Of the x and y of a direction   *)
(* the model keeps x * x + y * y (radius * radius, as cos^2 + sin^2 = 1)   *)
(* and the multiple of the golden angle they are turned by.                *)
(***************************************************************************)
Angle(deg, cos_half) == [deg |-> deg, cos_half |-> cos_half]

FibAngles ==
    {Angle(0, RInt(1)), Angle(73, Rat(4, 5)), Angle(106, Rat(3, 5)),
     Angle(120, Rat(1, 2)), Angle(180, RInt(0))}

\* Vec3f(x, y, z) with x = cos(phi * turn) * radius, y = sin(phi * turn) * radius
FibDir(turn, radius2, z) == [turn |-> turn, xy2 |-> radius2, z |-> z]

\* Direction d
FibDirection(dir, weight) == [dir |-> dir, weight |-> weight]

\* d.dir = Vec3f(0.f, 0.f, 1.f); d.weight = 1.f
polar_axis == FibDirection(FibDir(0, RInt(0), RInt(1)), RInt(1))

\* cos(angle / 2. * M_PI / 180.)
cos_half_angle(angle) == angle.cos_half

\* the asserts of a build that has them
fib_asserts_hold(angle) ==
    /\ angle.deg < 180
    /\ angle.deg > 1
    /\ RGt(cos_half_angle(angle), RInt(0))

\* z with the quotient taken in integers: 1 - i / (count_samples - 1)
z_integer_quotient(i, count_samples) == RInt(1 - (i \div (count_samples - 1)))

\* double z = 1. - (i / double(count_samples - 1))
fib_z(i, count_samples) == RSub(RInt(1), Rat(i, count_samples - 1))

\* the Direction pushed at i
fib_direction(i, count_samples) ==
    LET z == fib_z(i, count_samples)
        dir == FibDir(i, RSub(RInt(1), RSq(z)), z)
    IN  FibDirection(dir, dir.z)

FibInit ==
    /\ f_angle \in FibAngles
    /\ f_count_samples \in 0..MaxCountSamples
    /\ f_min_z = RInt(0)
    /\ f_points = <<>>
    /\ f_i = 0
    /\ fpc = "entry"

FibOthersUnchanged ==
    UNCHANGED <<subdivide_vars, poisson_vars, calc_vars, widths_vars,
                support_vars, tiny_vars, minside_vars>>

\* if (count_samples <= 1) return {d}
FibSingle ==
    /\ fpc = "entry"
    /\ f_count_samples <= 1
    /\ f_points' = <<polar_axis>>
    /\ fpc' = "done"
    /\ UNCHANGED <<f_angle, f_count_samples, f_min_z, f_i>>
    /\ FibOthersUnchanged

\* an assert fails, in a build that has them
FibAssertFails ==
    /\ fpc = "entry"
    /\ f_count_samples > 1
    /\ ~fib_asserts_hold(f_angle)
    /\ fpc' = "aborted"
    /\ UNCHANGED <<f_angle, f_count_samples, f_min_z, f_points, f_i>>
    /\ FibOthersUnchanged

\* min_z = cos(...); Directions points; i = 0.  With the asserts compiled
\* out the function goes on whatever the angle.
FibEnter ==
    /\ fpc = "entry"
    /\ f_count_samples > 1
    /\ f_min_z' = cos_half_angle(f_angle)
    /\ f_points' = <<>>
    /\ f_i' = 0
    /\ fpc' = "loop"
    /\ UNCHANGED <<f_angle, f_count_samples>>
    /\ FibOthersUnchanged

\* one iteration that pushes a Direction
FibPush ==
    /\ fpc = "loop"
    /\ f_i < f_count_samples
    /\ ~RLt(fib_z(f_i, f_count_samples), f_min_z)
    /\ f_points' = Append(f_points, fib_direction(f_i, f_count_samples))
    /\ f_i' = f_i + 1
    /\ UNCHANGED <<f_angle, f_count_samples, f_min_z, fpc>>
    /\ FibOthersUnchanged

\* if (z < min_z) break; return points
FibBreak ==
    /\ fpc = "loop"
    /\ f_i < f_count_samples
    /\ RLt(fib_z(f_i, f_count_samples), f_min_z)
    /\ fpc' = "done"
    /\ UNCHANGED <<f_angle, f_count_samples, f_min_z, f_points, f_i>>
    /\ FibOthersUnchanged

\* i == count_samples; return points
FibReturn ==
    /\ fpc = "loop"
    /\ ~(f_i < f_count_samples)
    /\ fpc' = "done"
    /\ UNCHANGED <<f_angle, f_count_samples, f_min_z, f_points, f_i>>
    /\ FibOthersUnchanged

FibNext ==
    \/ FibSingle
    \/ FibAssertFails
    \/ FibEnter
    \/ FibPush
    \/ FibBreak
    \/ FibReturn

\* FibInit, with the other functions not running
InitFib ==
    /\ FibInit
    /\ SubdivideIdle
    /\ PoissonIdle
    /\ CalcIdle
    /\ WidthsIdle
    /\ SupportIdle
    /\ TinyIdle
    /\ MinSideIdle

SpecFib == InitFib /\ [][FibNext]_vars

(***************************************************************************)
(* C11: for count_samples <= 1 the function returns exactly one direction, *)
(* the polar axis (0, 0, 1) with weight 1, whatever the angle.  For        *)
(* count_samples = N > 1 and 1 < angle < 180 it returns between 1 and N    *)
(* directions; the first is the polar axis with weight 1; every direction  *)
(* has z >= cos(angle / 2); z strictly decreases along the sequence; each  *)
(* weight equals its direction's z and is strictly positive.               *)
(***************************************************************************)
FibDirectionsInCone ==
    fpc = "done" =>
       /\ f_count_samples <= 1 => f_points = <<polar_axis>>
       /\ (f_count_samples > 1 /\ f_angle.deg > 1 /\ f_angle.deg < 180) =>
             /\ Len(f_points) >= 1
             /\ Len(f_points) <= f_count_samples
             /\ f_points[1].dir.xy2 = RInt(0)
             /\ f_points[1].dir.z = RInt(1)
             /\ f_points[1].weight = RInt(1)
             /\ \A k \in 1..Len(f_points) :
                   /\ RLe(f_angle.cos_half, f_points[k].dir.z)
                   /\ f_points[k].weight = f_points[k].dir.z
                   /\ RGt(f_points[k].weight, RInt(0))
                   /\ RAdd(f_points[k].dir.xy2, RSq(f_points[k].dir.z)) = RInt(1)
             /\ \A k \in 1..(Len(f_points) - 1) :
                   RLt(f_points[k + 1].dir.z, f_points[k].dir.z)

\* a finished call of C11 that left the loop by the break with three or
\* more directions inside the cone
FibBrokeAfterThree ==
    /\ fpc = "done"
    /\ f_count_samples > 1
    /\ f_angle.deg > 1 /\ f_angle.deg < 180
    /\ Len(f_points) >= 3
    /\ Len(f_points) < f_count_samples - 1

(***************************************************************************)
(* sample_tiny_parts: the mesh of the ray casts and what indexes it        *)
(*                                                                         *)
(* SimplifiableMesh::remove_small_edges, NormalUtils::create_triangle_     *)
(* normals and the AABBTreeIndirect functions are not in this file.  They  *)
(* are modelled by what they are for: edges shorter than min_length are    *)
(* collapsed, and the vectors are resized through mesh_traits::update; a   *)
(* normal is made per triangle of the mesh given (kept before its          *)
(* normalisation); the tree holds, per triangle of the vertices and        *)
(* indices given, its position in indices and its bounding box; a ray      *)
(* cast reaches a leaf of the tree and then reads the triangle at the      *)
(* leaf's position from the vertices and indices it is given.              *)
(***************************************************************************)
Mesh(vertices, indices) == [vertices |-> vertices, indices |-> indices]

\* AABBTree before tree.vertices_indices = its
EmptyTree ==
    [vertices_indices |-> Mesh(<<>>, <<>>), triangle_normals |-> <<>>,
     tree |-> <<>>]

\* seq without its element at position b (0-based)
RemoveAt(seq, b) ==
    [k \in 1..(Len(seq) - 1) |-> IF k < b + 1 THEN seq[k] ELSE seq[k + 1]]

\* the elements of seq that keep marks, in order
RECURSIVE Filtered(_, _)
Filtered(seq, keep) ==
    IF seq = <<>> THEN <<>>
    ELSE (IF keep[1] THEN <<Head(seq)>> ELSE <<>>)
            \o Filtered(Tail(seq), Tail(keep))

\* the edges of the mesh shorter than min_length, as pairs a < b
short_edges(mesh, min_length) ==
    {ab \in (0..(Len(mesh.vertices) - 1)) \X (0..(Len(mesh.vertices) - 1)) :
        /\ ab[1] < ab[2]
        /\ \E k \in 1..Len(mesh.indices) :
              \E i, j \in 1..3 :
                 mesh.indices[k][i] = ab[1] /\ mesh.indices[k][j] = ab[2]
        /\ RLt(SqNorm(VSub(At(mesh.vertices, ab[1]), At(mesh.vertices, ab[2]))),
               RSq(min_length))}

\* the collapse of edge (a, b), a < b: b becomes a, the triangles that held
\* both go, vertex b goes, and update(m, vc, fc) resizes both vectors
collapse_edge(mesh, a, b) ==
    LET merged == [k \in 1..Len(mesh.indices) |->
                      [i \in 1..3 |-> IF mesh.indices[k][i] = b THEN a
                                      ELSE mesh.indices[k][i]]]
        alive == [k \in 1..Len(merged) |->
                     /\ merged[k][1] # merged[k][2]
                     /\ merged[k][2] # merged[k][3]
                     /\ merged[k][1] # merged[k][3]]
        faces == Filtered(merged, alive)
    IN  Mesh(RemoveAt(mesh.vertices, b),
             [k \in 1..Len(faces) |->
                 [i \in 1..3 |-> IF faces[k][i] > b THEN faces[k][i] - 1
                                 ELSE faces[k][i]]])

\* the normal of triangle t of a mesh, before its normalisation
triangle_normal(mesh, t) ==
    LET v0 == At(mesh.vertices, t[1])
        v1 == At(mesh.vertices, t[2])
        v2 == At(mesh.vertices, t[3])
    IN  Cross(VSub(v1, v0), VSub(v2, v0))

\* NormalUtils::create_triangle_normals(its)
create_triangle_normals(its) ==
    [k \in 1..Len(its.indices) |-> triangle_normal(its, its.indices[k])]

RMin(p, q) == IF RLt(q, p) THEN q ELSE p
RMax(p, q) == IF RLt(p, q) THEN q ELSE p

\* the bounding box of triangle t of the given vertices
bounding_box(vertices, t) ==
    LET v0 == At(vertices, t[1])
        v1 == At(vertices, t[2])
        v2 == At(vertices, t[3])
    IN  [min |-> [c \in 1..3 |-> RMin(v0[c], RMin(v1[c], v2[c]))],
         max |-> [c \in 1..3 |-> RMax(v0[c], RMax(v1[c], v2[c]))]]

\* AABBTreeIndirect::build_aabb_tree_over_indexed_triangle_set(vertices, indices)
build_aabb_tree_over_indexed_triangle_set(vertices, indices) ==
    [k \in 1..Len(indices) |->
        [idx |-> k - 1, bbox |-> bounding_box(vertices, indices[k])]]

\* the mesh the tree and the normals are built over: its
tree_source(its, tree) == its

TinyMeshes ==
    {Mesh(<<VInt(0, 0, 0), VInt(x1, 0, 0), VInt(0, y2, 0), VInt(x1, y2, z3)>>,
          indices) :
        x1 \in {1, 2}, y2 \in {2, 3}, z3 \in {0, 1},
        indices \in {<<<<0, 1, 2>>, <<1, 3, 2>>>>, <<<<0, 1, 2>>>>}}

TinyInit ==
    /\ t_its \in TinyMeshes
    /\ t_min_length \in {RInt(1), RInt(2), RInt(3)}
    /\ t_tree = EmptyTree
    /\ t_hit = <<>>
    /\ tpc = "copy"

TinyOthersUnchanged ==
    UNCHANGED <<subdivide_vars, poisson_vars, calc_vars, widths_vars,
                support_vars, fib_vars, minside_vars>>

\* tree.vertices_indices = its
TinyCopy ==
    /\ tpc = "copy"
    /\ t_tree' = [t_tree EXCEPT !.vertices_indices = t_its]
    /\ tpc' = "connect"
    /\ UNCHANGED <<t_its, t_min_length, t_hit>>
    /\ TinyOthersUnchanged

\* connect_small_triangles(tree.vertices_indices, ...): one collapse
TinyCollapse ==
    /\ tpc = "connect"
    /\ \E ab \in short_edges(t_tree.vertices_indices, t_min_length) :
          t_tree' = [t_tree EXCEPT !.vertices_indices =
                        collapse_edge(t_tree.vertices_indices, ab[1], ab[2])]
    /\ UNCHANGED <<t_its, t_min_length, t_hit, tpc>>
    /\ TinyOthersUnchanged

\* connect_small_triangles returns: no edge is left that it may collapse
\* (max_error may forbid the collapse of a short edge)
TinyConnected ==
    /\ tpc = "connect"
    /\ tpc' = "normals"
    /\ UNCHANGED <<t_its, t_min_length, t_tree, t_hit>>
    /\ TinyOthersUnchanged

\* tree.triangle_normals = NormalUtils::create_triangle_normals(its)
TinyNormals ==
    /\ tpc = "normals"
    /\ t_tree' = [t_tree EXCEPT !.triangle_normals =
                     create_triangle_normals(tree_source(t_its, t_tree))]
    /\ tpc' = "tree"
    /\ UNCHANGED <<t_its, t_min_length, t_hit>>
    /\ TinyOthersUnchanged

\* tree.tree = build_aabb_tree_over_indexed_triangle_set(its.vertices, its.indices)
TinyTree ==
    /\ tpc = "tree"
    /\ LET source == tree_source(t_its, t_tree)
       IN  t_tree' = [t_tree EXCEPT !.tree =
                         build_aabb_tree_over_indexed_triangle_set(
                             source.vertices, source.indices)]
    /\ tpc' = "cast"
    /\ UNCHANGED <<t_its, t_min_length, t_hit>>
    /\ TinyOthersUnchanged

\* calc_width: intersect_ray_first_hit(vertices, indices, tree.tree, ...)
\* with the vertices and indices of tree.vertices_indices; the ray reaches
\* a leaf whose position is inside indices
TinyCast ==
    /\ tpc = "cast"
    /\ Len(t_hit) < MaxCasts
    /\ \E k \in 1..Len(t_tree.tree) :
          /\ t_tree.tree[k].idx < Len(t_tree.vertices_indices.indices)
          /\ t_hit' = Append(t_hit, [id |-> t_tree.tree[k].idx, in_indices |-> TRUE])
    /\ UNCHANGED <<t_its, t_min_length, t_tree, tpc>>
    /\ TinyOthersUnchanged

\* the ray reaches a leaf whose position is past the end of indices: the
\* read is undefined, the cast crashes or goes on with what it read
TinyCastPastEnd ==
    /\ tpc = "cast"
    /\ Len(t_hit) < MaxCasts
    /\ \E k \in 1..Len(t_tree.tree) :
          /\ ~(t_tree.tree[k].idx < Len(t_tree.vertices_indices.indices))
          /\ t_hit' = Append(t_hit, [id |-> t_tree.tree[k].idx, in_indices |-> FALSE])
    /\ tpc' \in {"cast", "crashed"}
    /\ UNCHANGED <<t_its, t_min_length, t_tree>>
    /\ TinyOthersUnchanged

TinyNext ==
    \/ TinyCopy
    \/ TinyCollapse
    \/ TinyConnected
    \/ TinyNormals
    \/ TinyTree
    \/ TinyCast
    \/ TinyCastPastEnd

\* TinyInit, with the other functions not running
InitTiny ==
    /\ TinyInit
    /\ SubdivideIdle
    /\ PoissonIdle
    /\ CalcIdle
    /\ WidthsIdle
    /\ SupportIdle
    /\ FibIdle
    /\ MinSideIdle

SpecTiny == InitTiny /\ [][TinyNext]_vars

(***************************************************************************)
(* C12: once sample_tiny_parts has built them, the tree and the table of   *)
(* triangle normals are over the same vertices and triangles as            *)
(* tree.vertices_indices, also when connect_small_triangles removed or     *)
(* renumbered some: every triangle id in the tree and every hit id is a    *)
(* valid position of tree.vertices_indices.indices and of                  *)
(* tree.triangle_normals, and denotes the same triangle in all of them.    *)
(***************************************************************************)
TreeIndexesItsMesh ==
    tpc \in {"cast", "crashed"} =>
       LET mesh == t_tree.vertices_indices
       IN  /\ Len(t_tree.triangle_normals) = Len(mesh.indices)
           /\ Len(t_tree.tree) = Len(mesh.indices)
           /\ \A k \in 1..Len(t_tree.tree) :
                 LET id == t_tree.tree[k].idx
                 IN  /\ id < Len(mesh.indices)
                     /\ id < Len(t_tree.triangle_normals)
                     /\ t_tree.tree[k].bbox =
                           bounding_box(mesh.vertices, At(mesh.indices, id))
                     /\ At(t_tree.triangle_normals, id) =
                           triangle_normal(mesh, At(mesh.indices, id))
           /\ \A h \in 1..Len(t_hit) : t_hit[h].in_indices

\* the part of C12 the code keeps: when connect_small_triangles left the
\* mesh as it was, the tree and the normals index tree.vertices_indices
TreeIndexesUnchangedMesh ==
    (tpc \in {"cast", "crashed"} /\ t_tree.vertices_indices = t_its) =>
       LET mesh == t_tree.vertices_indices
       IN  /\ Len(t_tree.triangle_normals) = Len(mesh.indices)
           /\ \A k \in 1..Len(t_tree.tree) :
                 LET id == t_tree.tree[k].idx
                 IN  /\ id < Len(mesh.indices)
                     /\ t_tree.tree[k].bbox =
                           bounding_box(mesh.vertices, At(mesh.indices, id))
                     /\ At(t_tree.triangle_normals, id) =
                           triangle_normal(mesh, At(mesh.indices, id))
           /\ \A h \in 1..Len(t_hit) : t_hit[h].in_indices

(***************************************************************************)
(* poisson_sphere_from_samples, the empty candidate list included          *)
(*                                                                         *)
(* On an empty list samples.back() reads before the first element.  That   *)
(* is undefined: the call crashes, or it goes on with whatever float the   *)
(* read gave as max_r.                                                     *)
(***************************************************************************)
\* the floats a read before the first element may give
GarbageRadii == PoissonRadii \cup {RInt(0), RInt(-1)}

\* the call with any candidate list
PoissonAnyInit ==
    /\ \E n \in 0..MaxSamples : samples \in [1..n -> PoissonCandidates]
    /\ samples_in = samples
    /\ grid \in {{}} \cup {{q} : q \in PoissonPositions}
    /\ actGrid = PointGrid3D(RInt(0))
    /\ presult = <<>>
    /\ si = 1
    /\ back_read = "none"
    /\ ppc = "sort"

\* std::sort, result, max_r = samples.back().radius, actGrid, when samples
\* is empty
PoissonSortEmpty ==
    /\ ppc = "sort"
    /\ samples = <<>>
    /\ back_read' = "past_end"
    /\ \/ /\ ppc' = "crashed"
          /\ UNCHANGED <<actGrid, presult, si>>
       \/ /\ \E max_r \in GarbageRadii : actGrid' = PointGrid3D(max_r)
          /\ presult' = <<>>
          /\ si' = 1
          /\ ppc' = "loop"
    /\ UNCHANGED <<samples_in, samples, grid>>
    /\ UNCHANGED <<subdivide_vars, calc_vars, widths_vars, support_vars,
                   fib_vars, tiny_vars, minside_vars>>

PoissonAnyNext ==
    \/ PoissonSort
    \/ PoissonSortEmpty
    \/ PoissonReject
    \/ PoissonAccept
    \/ PoissonReturn

\* PoissonAnyInit, with the other functions not running
InitPoissonAny ==
    /\ PoissonAnyInit
    /\ SubdivideIdle
    /\ CalcIdle
    /\ WidthsIdle
    /\ SupportIdle
    /\ FibIdle
    /\ TinyIdle
    /\ MinSideIdle

SpecPoissonAny == InitPoissonAny /\ [][PoissonAnyNext]_vars

(***************************************************************************)
(* C13: poisson_sphere_from_samples reads only elements that exist: on an  *)
(* empty candidate list it accesses no element, returns, and leaves the    *)
(* list empty.                                                             *)
(***************************************************************************)
PoissonEmptyReadsNothing ==
    samples_in = <<>> =>
       /\ back_read # "past_end"
       /\ ppc # "crashed"
       /\ ppc = "done" => samples = <<>>

\* the part of C13 the code keeps: a call on an empty list that returns
\* leaves the list empty, and a non-empty list is never read past its end
PoissonEmptyStaysEmpty ==
    /\ (samples_in = <<>> /\ ppc = "done") => samples = <<>>
    /\ samples_in # <<>> => back_read # "past_end" /\ ppc # "crashed"

(***************************************************************************)
(* min_triangle_side_length                                                *)
(*                                                                         *)
(* min and length are carried as their squares; fabs(c) > min is then      *)
(* c * c > min * min, and min > length compares the squares.  A read of    *)
(* its.vertices past its end is undefined: the call crashes or goes on     *)
(* with whatever vertex the read gave.                                     *)
(***************************************************************************)
\* int i2 = i + 1; if (i2 == 2) i2 = 0
second_index(i) == IF i + 1 = 2 THEN 0 ELSE i + 1

\* the loop body from edge = v0 - v1 on: the new min
min_after_edge(min, v0, v1) ==
    LET edge == VSub(v0, v1)
    IN  IF RGt(RSq(edge[1]), min) THEN min
        ELSE IF RGt(RSq(edge[2]), min) THEN min
        ELSE IF RGt(min, SqNorm(edge)) THEN SqNorm(edge)
        ELSE min

\* the vertices a read past the end of its.vertices may give
GarbageVertices == {VInt(0, 0, 0), VInt(1, 1, 1)}

MinSideMeshes ==
    {Mesh(vertices, indices) :
        vertices \in
            {<<VInt(0, 0, 0), VInt(a, 0, 0), VInt(0, b, 0)>> :
                a \in 1..MaxSide, b \in 1..MaxSide}
            \cup {<<VInt(0, 0, 0), VInt(a, 0, 0), VInt(0, b, 0), VInt(0, 0, c)>> :
                     a \in 1..MaxSide, b \in 1..MaxSide, c \in 1..MaxSide},
        indices \in {<<<<0, 1, 2>>>>, <<<<2, 0, 1>>>>, <<<<1, 2, 0>>, <<0, 2, 1>>>>}}

MinSideInit ==
    /\ m_its \in MinSideMeshes
    /\ m_min = RInt(0)
    /\ m_tri = 0
    /\ m_i = 0
    /\ m_read = {}
    /\ mpc = "entry"

MinSideOthersUnchanged ==
    UNCHANGED <<subdivide_vars, poisson_vars, calc_vars, widths_vars,
                support_vars, fib_vars, tiny_vars>>

\* it = its.indices.front(); min = (v0 - v1).norm()
MinSideEnter ==
    /\ mpc = "entry"
    /\ LET it == m_its.indices[1]
       IN  m_min' = SqNorm(VSub(At(m_its.vertices, it[1]),
                                At(m_its.vertices, it[2])))
    /\ m_tri' = 0
    /\ m_i' = 0
    /\ mpc' = "loop"
    /\ UNCHANGED <<m_its, m_read>>
    /\ MinSideOthersUnchanged

\* one iteration of the loop over i that reads two vertices that exist
MinSideEdge ==
    /\ mpc = "loop"
    /\ m_tri < Len(m_its.indices)
    /\ m_i < 3
    /\ m_i < Len(m_its.vertices)
    /\ second_index(m_i) < Len(m_its.vertices)
    /\ m_min' = min_after_edge(m_min, At(m_its.vertices, m_i),
                               At(m_its.vertices, second_index(m_i)))
    /\ m_read' = m_read \cup {m_i, second_index(m_i)}
    /\ m_i' = m_i + 1
    /\ UNCHANGED <<m_its, m_tri, mpc>>
    /\ MinSideOthersUnchanged

\* one iteration whose its.vertices[i2] is past the end of its.vertices
MinSideEdgePastEnd ==
    /\ mpc = "loop"
    /\ m_tri < Len(m_its.indices)
    /\ m_i < 3
    /\ m_i < Len(m_its.vertices)
    /\ ~(second_index(m_i) < Len(m_its.vertices))
    /\ m_read' = m_read \cup {m_i, second_index(m_i)}
    /\ \/ /\ mpc' = "crashed"
          /\ UNCHANGED <<m_min, m_i>>
       \/ /\ \E v1 \in GarbageVertices :
                m_min' = min_after_edge(m_min, At(m_its.vertices, m_i), v1)
          /\ m_i' = m_i + 1
          /\ UNCHANGED mpc
    /\ UNCHANGED <<m_its, m_tri>>
    /\ MinSideOthersUnchanged

\* i == 3: the next triangle
MinSideNextTriangle ==
    /\ mpc = "loop"
    /\ m_tri < Len(m_its.indices)
    /\ ~(m_i < 3)
    /\ m_tri' = m_tri + 1
    /\ m_i' = 0
    /\ UNCHANGED <<m_its, m_min, m_read, mpc>>
    /\ MinSideOthersUnchanged

\* return min
MinSideReturn ==
    /\ mpc = "loop"
    /\ ~(m_tri < Len(m_its.indices))
    /\ mpc' = "done"
    /\ UNCHANGED <<m_its, m_min, m_tri, m_i, m_read>>
    /\ MinSideOthersUnchanged

MinSideNext ==
    \/ MinSideEnter
    \/ MinSideEdge
    \/ MinSideEdgePastEnd
    \/ MinSideNextTriangle
    \/ MinSideReturn

\* MinSideInit, with the other functions not running
InitMinSide ==
    /\ MinSideInit
    /\ SubdivideIdle
    /\ PoissonIdle
    /\ CalcIdle
    /\ WidthsIdle
    /\ SupportIdle
    /\ FibIdle
    /\ TinyIdle

SpecMinSide == InitMinSide /\ [][MinSideNext]_vars

\* the squared lengths of the three edges of every triangle of the mesh
SideLengths2(mesh) ==
    {SqNorm(VSub(At(mesh.vertices, mesh.indices[k][e]),
                 At(mesh.vertices, mesh.indices[k][(e % 3) + 1]))) :
        k \in 1..Len(mesh.indices), e \in 1..3}

\* the least element of a non-empty set of rationals
RLeast(S) == CHOOSE x \in S : \A y \in S : RLe(x, y)

(***************************************************************************)
(* C14: for a mesh with at least one triangle and in-range indices,        *)
(* min_triangle_side_length returns the minimum, over all triangles and    *)
(* over the three edges of each (between the vertices its indices refer    *)
(* to), of the edge's Euclidean length.                                    *)
(***************************************************************************)
MinSideIsMinimum ==
    /\ mpc # "crashed"
    /\ mpc = "done" => m_min = RLeast(SideLengths2(m_its))

\* what the code returns on a mesh of four or more vertices: the least of
\* the first triangle's first edge and the edges between its.vertices[0]
\* and [1] and between its.vertices[2] and [3]
MinSideOfFirstVertices ==
    (mpc = "done" /\ Len(m_its.vertices) >= 4) =>
       m_min = RLeast({SqNorm(VSub(At(m_its.vertices, m_its.indices[1][1]),
                                   At(m_its.vertices, m_its.indices[1][2]))),
                       SqNorm(VSub(At(m_its.vertices, 0), At(m_its.vertices, 1))),
                       SqNorm(VSub(At(m_its.vertices, 2), At(m_its.vertices, 3)))})

=============================================================================
